---- MODULE Spec2Model ----
(***************************************************************************)
(* Model of backend/app.py: a Flask gateway that binds one gradio client   *)
(* per capability while the module is imported (the registry build loop),  *)
(* then serves six routes that proxy to the bound clients.                 *)
(*                                                                         *)
(* Two phases share the variables:                                         *)
(*   - startup: lines 74-83 calling initialize_gradio_client (33-44);      *)
(*   - serving: the route handlers (135-320), one request per worker.      *)
(* The outside world (Client(url), requests.get, file saves, the remote    *)
(* predict call, shutil.copy) is nondeterministic: each call may succeed   *)
(* or raise.  A remote call that returns yields a value of the type the    *)
(* route expects (text, a file path, a comma-delimited string).            *)
(*                                                                         *)
(* A handler is a sequence of steps, cut at the calls it blocks on (the    *)
(* download, the save, the remote call, the copy); req[w].pc is its        *)
(* position.  tries, waits and built record what the resolver did; the     *)
(* counters of a request record what its handler did.                      *)
(*                                                                         *)
(* Spec is the program as configured: startup, then requests handled one   *)
(* at a time.  SpecResolve is the startup code alone over every truncation *)
(* of the configured candidate lists, so that lists of length 0, 1 and 2   *)
(* occur for every capability.                                             *)
(***************************************************************************)
EXTENDS Naturals, Sequences, FiniteSets

(***************************************************************************)
(* Static configuration                                                    *)
(***************************************************************************)

\* CLIENTS (lines 47-71): the candidate addresses of each capability.
CLIENTS ==
    [virtual_tryon |-> <<"https://7395458a587bc50ec3.gradio.live/",
                         "https://virtual-try-on.hf.space/">>,
     chatbot       |-> <<"https://fe81ff40040ecfff3c.gradio.live/",
                         "https://fashion-chatbot.hf.space/">>,
     text_to_dress |-> <<"dhaan-ish/text-to-cloth">>,
     occasion      |-> <<"https://8c8e6f96c1fe2aefb7.gradio.live/",
                         "https://fashion-occasion.hf.space/">>]

\* CLIENTS.items() iterates in insertion order (lines 47-71, 75).
ServiceOrder == <<"virtual_tryon", "chatbot", "text_to_dress", "occasion">>

\* CLIENTS.keys()
Services == {ServiceOrder[i] : i \in 1..Len(ServiceOrder)}

AllUrls == UNION {{CLIENTS[s][i] : i \in 1..Len(CLIENTS[s])} : s \in Services}

\* initialize_gradio_client's default max_retries (line 33).
max_retries == 3

\* sleep(2) (line 43): the backoff, in seconds.
BackoffSecs == 2

\* An absent key of the clients dict / the None that initialize_gradio_client
\* returns.
NoClient == "None"

VARIABLES
    urls,      \* config["urls"] of each capability, as the loop reads it
    clients,   \* the registry: capability -> bound client (its url) or NoClient
    spc,       \* position of the startup code: "svc", "try", "sleep", "serving"
    si,        \* index in ServiceOrder of the capability being resolved
    ui,        \* index of the candidate being tried
    attempt,   \* initialize_gradio_client's loop variable (0-based)
    tries,     \* per url: Client(url) constructions attempted so far
    waits,     \* per url: seconds slept after its failed attempts
    built,     \* urls whose Client(url) construction has succeeded
    pool,      \* the workers (threads) the hosting runtime serves requests with
    req,       \* per worker: the request it is handling and its response
    lastHealth, \* the 'services' of the latest /health answer (<<>>: none yet)
    now,       \* datetime.now(), in ticks of a fraction of a second
    staged,    \* whose content uploads/upload.png and downloaded_image.png hold
    public     \* per generated filename: whose result the public directory holds

\* The clock and the two directories.
fsVars == <<now, staged, public>>

vars ==
    <<urls, clients, spc, si, ui, attempt, tries, waits, built, pool, req, lastHealth,
      now, staged, public>>

\* What no handler step changes.
fixedVars == <<urls, clients, spc, si, ui, attempt, tries, waits, built, pool>>

(***************************************************************************)
(* Startup: the registry build loop and initialize_gradio_client           *)
(***************************************************************************)

\* The prefixes of a sequence (the empty one and the whole included).
Prefixes(q) == {SubSeq(q, 1, n) : n \in 0..Len(q)}

UrlsOf(s) == {urls[s][i] : i \in 1..Len(urls[s])}

CurService == ServiceOrder[si]

CurUrl == urls[CurService][ui]

\* clients = {} (line 74) and nothing attempted yet.
InitStartup ==
    /\ clients = [s \in Services |-> NoClient]
    /\ spc = "svc"
    /\ si = 1
    /\ ui = 1
    /\ attempt = 0
    /\ tries = [u \in AllUrls |-> 0]
    /\ waits = [u \in AllUrls |-> 0]
    /\ built = {}

\* `for attempt in range(max_retries)` (line 35): is there another iteration
\* after the one numbered a?
HasNextAttempt(a) == a + 1 < max_retries

\* Variant of ShouldSleep: the backoff is taken after every failed attempt,
\* the last one included.
ShouldSleepAfterLast(a) == a < max_retries

\* `if attempt < max_retries - 1` (line 42).
ShouldSleep(a) == a < max_retries - 1

\* Variant of ExhaustedResult: a url whose attempts all failed still yields a
\* client object.
ExhaustedResultClient(u) == u

\* `return None` (line 44): what initialize_gradio_client yields for a url
\* whose attempts all failed.
ExhaustedResult(u) == NoClient

\* Top of the outer loop (line 75) for the capability numbered si; an empty
\* url list falls through the inner loop to line 82; after the last
\* capability the module goes on to define and serve the routes.
NextService ==
    /\ spc = "svc"
    /\ IF si > Len(ServiceOrder)
         THEN /\ spc' = "serving"
              /\ UNCHANGED <<si, ui, attempt>>
         ELSE IF Len(urls[CurService]) = 0
           THEN /\ si' = si + 1
                /\ UNCHANGED <<spc, ui, attempt>>
           ELSE /\ spc' = "try"
                /\ ui' = 1
                /\ attempt' = 0
                /\ UNCHANGED si
    /\ UNCHANGED <<urls, clients, tries, waits, built, pool, req, lastHealth, fsVars>>

\* Lines 78-81: a client came back; bind it and `break` to line 82.
BindAndBreak(c) ==
    /\ clients' = [clients EXCEPT ![CurService] = c]
    /\ spc' = "svc"
    /\ si' = si + 1
    /\ UNCHANGED <<ui, attempt>>

\* Variant of NextCandidate: a capability whose candidates are used up ends
\* the whole registry build loop.
NextCandidateOrStop ==
    /\ IF ui < Len(urls[CurService])
         THEN /\ ui' = ui + 1
              /\ attempt' = 0
              /\ spc' = "try"
              /\ UNCHANGED si
         ELSE /\ si' = Len(ServiceOrder) + 1
              /\ spc' = "svc"
              /\ UNCHANGED <<ui, attempt>>

\* Line 76 after a falsy client: the next candidate, or, the list being
\* used up, line 82 and the next capability.
NextCandidate ==
    /\ IF ui < Len(urls[CurService])
         THEN /\ ui' = ui + 1
              /\ attempt' = 0
              /\ spc' = "try"
              /\ UNCHANGED si
         ELSE /\ si' = si + 1
              /\ spc' = "svc"
              /\ UNCHANGED <<ui, attempt>>

\* Variant of AfterInitialize: the client is bound but the `break` of line 81
\* is missing, so the loop goes on with the next candidate.
AfterInitializeNoBreak(c) ==
    IF c # NoClient
      THEN NextCandidate /\ clients' = [clients EXCEPT ![CurService] = c]
      ELSE NextCandidate /\ UNCHANGED clients

\* Lines 77-81 once initialize_gradio_client has returned c.
AfterInitialize(c) ==
    IF c # NoClient
      THEN BindAndBreak(c)
      ELSE NextCandidate /\ UNCHANGED clients

\* One iteration of initialize_gradio_client's loop (lines 35-42): Client(url)
\* is constructed or raises.
TryConnect ==
    /\ spc = "try"
    /\ tries' = [tries EXCEPT ![CurUrl] = @ + 1]
    /\ \E ok \in BOOLEAN :
         IF ok
           THEN /\ built' = built \cup {CurUrl}
                /\ AfterInitialize(CurUrl)
           ELSE /\ built' = built
                /\ IF ShouldSleep(attempt)
                     THEN /\ spc' = "sleep"
                          /\ UNCHANGED <<clients, si, ui, attempt>>
                     ELSE IF HasNextAttempt(attempt)
                       THEN /\ attempt' = attempt + 1
                            /\ UNCHANGED <<clients, spc, si, ui>>
                       ELSE AfterInitialize(ExhaustedResult(CurUrl))
    /\ UNCHANGED <<urls, waits, pool, req, lastHealth, fsVars>>

\* sleep(2) (line 43), then the next iteration of the retry loop.
Backoff ==
    /\ spc = "sleep"
    /\ waits' = [waits EXCEPT ![CurUrl] = @ + BackoffSecs]
    /\ IF HasNextAttempt(attempt)
         THEN /\ attempt' = attempt + 1
              /\ spc' = "try"
              /\ UNCHANGED <<clients, si, ui>>
         ELSE AfterInitialize(ExhaustedResult(CurUrl))
    /\ UNCHANGED <<urls, tries, built, pool, req, lastHealth, fsVars>>

(***************************************************************************)
(* Properties of the startup resolution                                    *)
(***************************************************************************)

\* Position of capability s in the build loop's order.
IndexOf(s) == CHOOSE i \in 1..Len(ServiceOrder) : ServiceOrder[i] = s

\* The build loop is done with capability s.
Resolved(s) == spc = "serving" \/ si > IndexOf(s)

\* Client(url) constructions attempted for capability s so far.
RECURSIVE SumTries(_, _)
SumTries(s, n) == IF n = 0 THEN 0 ELSE tries[urls[s][n]] + SumTries(s, n - 1)

TotalTries(s) == SumTries(s, Len(urls[s]))

\* The candidate of s at index i is the earliest one that was constructed.
EarliestBuilt(s, i) ==
    /\ urls[s][i] \in built
    /\ \A j \in 1..(i - 1) :
         urls[s][j] \notin built /\ tries[urls[s][j]] = max_retries

C1_BoundIsEarliest ==
    \A s \in Services :
      /\ clients[s] # NoClient <=> UrlsOf(s) \cap built # {}
      /\ clients[s] # NoClient =>
           \E i \in 1..Len(urls[s]) :
             /\ clients[s] = urls[s][i]
             /\ EarliestBuilt(s, i)
             /\ \A j \in (i + 1)..Len(urls[s]) : tries[urls[s][j]] = 0
      /\ ( /\ Len(urls[s]) >= 2
           /\ clients[s] = urls[s][2]
           /\ tries[urls[s][2]] = 1 ) => TotalTries(s) = max_retries + 1

\* An attempt against candidate i of s: s has no client yet, every earlier
\* candidate has used up its attempts and no later candidate was touched.
C1_AttemptInOrder ==
    \A s \in Services : \A i \in 1..Len(urls[s]) :
      tries'[urls[s][i]] > tries[urls[s][i]] =>
        /\ tries[urls[s][i]] < max_retries
        /\ clients[s] = NoClient
        /\ UrlsOf(s) \cap built = {}
        /\ \A j \in 1..(i - 1) : tries[urls[s][j]] = max_retries
        /\ \A j \in (i + 1)..Len(urls[s]) : tries[urls[s][j]] = 0

\* C1: candidates are tried strictly in list order and resolution stops at
\* the first successful construction: the bound client is the one of the
\* earliest candidate that succeeded, nothing is attempted against a later
\* candidate after a success nor against an earlier one once passed (first
\* candidate fails 3 times, second succeeds at once: bound after 4 attempts).
C1_OrderedFirstSuccess == [](C1_BoundIsEarliest) /\ [][C1_AttemptInOrder]_vars

\* The second candidate is bound after the first used up its three attempts.
C1_Witness ==
    \E s \in Services :
      /\ Len(urls[s]) = 2
      /\ clients[s] = urls[s][2]
      /\ tries[urls[s][1]] = max_retries
      /\ tries[urls[s][2]] = 1
      /\ Resolved(s)

\* The resolver has left url u behind (constructed, or given up on).
Left(u) ==
    \E s \in Services : \E i \in 1..Len(urls[s]) :
      /\ urls[s][i] = u
      /\ \/ Resolved(s)
         \/ (si = IndexOf(s) /\ spc # "svc" /\ ui > i)

C2_Budget ==
    \A u \in AllUrls :
      /\ tries[u] <= max_retries
      /\ u \in built => /\ tries[u] \in 1..max_retries
                        /\ waits[u] = BackoffSecs * (tries[u] - 1)
                        /\ \E s \in Services : clients[s] = u
      /\ (u \notin built /\ Left(u) /\ tries[u] > 0) =>
           /\ tries[u] = max_retries
           /\ waits[u] = BackoffSecs * (max_retries - 1)
      /\ waits[u] <= BackoffSecs * tries[u]

\* Once a construction has succeeded, the url is neither tried nor waited
\* for again; a wait is always followed by an attempt against the same url.
C2_SuccessEnds ==
    /\ \A u \in AllUrls :
         u \in built => tries'[u] = tries[u] /\ waits'[u] = waits[u]
    /\ (spc = "sleep" /\ spc' # "sleep") =>
         /\ spc' = "try"
         /\ si' = si
         /\ ui' = ui

\* C2: at most max_retries (3) construction attempts per candidate; a success
\* on attempt k in 1..3 is accepted and ends the attempts; the 2-second
\* backoff is taken after a failed attempt only when another attempt against
\* the same candidate follows, so a candidate that uses up its budget costs
\* exactly max_retries - 1 waits.
C2_RetryBudget == [](C2_Budget) /\ [][C2_SuccessEnds]_vars

\* A candidate accepted on its third attempt, and another that used up its
\* budget.
C2_Witness ==
    \E u \in AllUrls : \E v \in AllUrls :
      /\ u \in built /\ tries[u] = max_retries
      /\ waits[u] = BackoffSecs * (max_retries - 1)
      /\ v \notin built /\ Left(v)
      /\ tries[v] = max_retries /\ waits[v] = BackoffSecs * (max_retries - 1)

C3_Unavailable ==
    /\ \A s \in Services :
         (Resolved(s) /\ UrlsOf(s) \cap built = {}) =>
           /\ clients[s] = NoClient
           /\ \A u \in UrlsOf(s) : tries[u] = max_retries
           /\ Len(urls[s]) = 0 => TotalTries(s) = 0
    /\ spc = "serving" => si = Len(ServiceOrder) + 1

\* The step in which the last candidate of a capability uses up its budget
\* goes on to the next capability.
C3_Continues ==
    ( /\ spc \in {"try", "sleep"}
      /\ \A u \in UrlsOf(CurService) : tries'[u] = max_retries /\ u \notin built'
      /\ spc' \notin {"try", "sleep"} )
    => /\ spc' = "svc"
       /\ si' = si + 1
       /\ clients'[CurService] = NoClient

\* C3: a capability whose candidates all use up their budget without a
\* successful construction ends startup unbound, and startup goes on (to the
\* next capability, then to serving); a capability with an empty candidate
\* list is unbound after zero attempts.
C3_ExhaustedIsUnavailable == [](C3_Unavailable) /\ [][C3_Continues]_vars

\* Startup is over with one capability unbound after all its candidates
\* failed and another unbound because its list is empty.
C3_Witness ==
    /\ spc = "serving"
    /\ \E s \in Services : \E e \in Services :
         /\ Len(urls[s]) = 2
         /\ clients[s] = NoClient
         /\ TotalTries(s) = 2 * max_retries
         /\ Len(urls[e]) = 0
         /\ clients[e] = NoClient

\* C4: capabilities are resolved independently: after startup each capability
\* is bound if and only if one of its own candidates could be constructed
\* within the budget, and the resolver has run on every capability (an
\* unbound one has had every candidate tried max_retries times), whatever
\* happened to the others.
C4_Independent ==
    spc = "serving" =>
      \A s \in Services :
        /\ clients[s] # NoClient <=> UrlsOf(s) \cap built # {}
        /\ clients[s] # NoClient => clients[s] \in UrlsOf(s)
        /\ clients[s] = NoClient => \A u \in UrlsOf(s) : tries[u] = max_retries

\* After startup: the first capability failed, the second is bound, the
\* third failed, the fourth is bound.
C4_Witness ==
    /\ spc = "serving"
    /\ urls = CLIENTS
    /\ clients["virtual_tryon"] = NoClient
    /\ clients["chatbot"] # NoClient
    /\ clients["text_to_dress"] = NoClient
    /\ clients["occasion"] # NoClient

(***************************************************************************)
(* Serving: requests, responses and the route handlers                     *)
(***************************************************************************)

\* The request-handling threads the server may run (app.run, line 328).
Workers == {"w1", "w2"}

\* The capability each route checks in the registry (lines 158, 179, 223,
\* 261, 295).
CapOf ==
    [predict        |-> "chatbot",
     upload         |-> "virtual_tryon",
     uploadocassion |-> "virtual_tryon",
     handleprompt   |-> "text_to_dress",
     handleocassion |-> "occasion"]

\* The routes that proxy to a capability: /predict, /upload, /uploadocassion,
\* /handleprompt, /handleocassion.
CapRoutes == DOMAIN CapOf

\* The routes whose remote result is a file that is then published.
FileRoutes == {"upload", "uploadocassion", "handleprompt"}

\* A request field: absent, present and empty, present with a value.
FieldVals == {"missing", "empty", "val"}

\* str(e) of the exceptions a handler catches.  A body that is not a JSON
\* object makes get_json()/request.json raise, or yield None and the next
\* line raise (161-162, 264-265, 298-299).
BodyError == "request body is not a JSON object"

\* data["text"] without the key (line 162): KeyError('text').
TextKeyError == "'text'"

\* request.form['url'] without the field (line 186): BadRequestKeyError.
UrlKeyError == "400 Bad Request: KeyError: 'url'"

\* uploaded_file.save raising (lines 196, 234).
SaveError == "cannot write uploads/upload.png"

\* The messages the remote predict call can raise with.
RemoteErrors == {"remote: queue full", "remote: connection reset"}

\* The 503 message of each route (lines 159, 180, 224, 262, 296).
UnavailableMsg ==
    [predict        |-> "Chatbot service not available",
     upload         |-> "Virtual try-on service not available",
     uploadocassion |-> "Virtual try-on service not available",
     handleprompt   |-> "Text-to-dress service not available",
     handleocassion |-> "Occasion service not available"]

\* The message after safe_copy returned False (lines 213, 251, 285).
CopyFailedMsg ==
    [upload         |-> "Failed to save result image",
     uploadocassion |-> "Failed to save result image",
     handleprompt   |-> "Failed to save generated image"]

\* The logical name each file route publishes its result under (lines 204,
\* 242, 276).
LogicalName ==
    [upload         |-> "result.png",
     uploadocassion |-> "result.png",
     handleprompt   |-> "generated_dress.png"]

\* Clock ticks per second: datetime.now() is finer than the %S of line 87.
TicksPerSecond == 2

\* The clock stops at this tick.
MaxNow == 3

\* Variant of Timestamp: the format keeps the fraction of the second.
TimestampFine(t) == t

\* strftime("%Y%m%d_%H%M%S") (line 87): the time t cut to whole seconds.
Timestamp(t) == t \div TicksPerSecond

\* generate_unique_filename (lines 85-88) evaluated at time t: the pair stands
\* for f"{timestamp}_{original_name}".
generate_unique_filename(original_name, t) == <<Timestamp(t), original_name>>

\* Every filename the public directory can receive.
PublicNames ==
    {<<s, LogicalName[route]>> : s \in 0..Timestamp(MaxNow), route \in FileRoutes}

\* Content of a file that belongs to no request being tracked: the file is
\* absent, or left by a request whose worker has since taken another one.
Untracked == "untracked"

\* PUBLIC_DIR / "image.JPEG" (line 237): the fixed base image of /upload.
BaseImage == "image.JPEG"

\* Text is a sequence of characters.  The remote results of /handleocassion
\* are the texts over these two characters, up to MaxResultLen long.
Comma == ","

ResultChars == {"s", Comma}

MaxResultLen == 3

ResultTexts == UNION {[1..n -> ResultChars] : n \in 0..MaxResultLen}

\* The values of color and selectedOccasion when present and not empty.
ColorText == <<"r", "e", "d">>

OccasionText == <<"w", "e", "d", "d", "i", "n", "g">>

\* f"{color} shirt for {selected_occasion}" (line 308).
Phrase(color, occasion) ==
    color \o <<" ", "s", "h", "i", "r", "t", " ", "f", "o", "r", " ">> \o occasion

\* Index of the first comma of text s (0: none).
FirstComma(s) ==
    IF \E i \in 1..Len(s) : s[i] = Comma
      THEN CHOOSE i \in 1..Len(s) : s[i] = Comma /\ \A j \in 1..(i - 1) : s[j] # Comma
      ELSE 0

\* Variant of split: empty segments are dropped.
RECURSIVE split_nonempty(_)
split_nonempty(s) ==
    IF FirstComma(s) = 0
      THEN IF s = <<>> THEN <<>> ELSE <<s>>
      ELSE (IF FirstComma(s) = 1 THEN <<>> ELSE <<SubSeq(s, 1, FirstComma(s) - 1)>>)
           \o split_nonempty(SubSeq(s, FirstComma(s) + 1, Len(s)))

\* result.split(",") (line 312).
RECURSIVE split(_)
split(s) ==
    IF FirstComma(s) = 0
      THEN <<s>>
      ELSE <<SubSeq(s, 1, FirstComma(s) - 1)>>
           \o split(SubSeq(s, FirstComma(s) + 1, Len(s)))

\* A worker with no request.  Fields: the route and the payload (body: the
\* body is a JSON object; a, b: the route's fields), the handler's position,
\* the response (status, shape, error, services, filename, items, show; answers
\* counts the responses sent), and what has happened for this request so far:
\* remote calls entered, upload.png writes, downloads started,
\* downloaded_image.png writes, how the remote call ended ("none", "ok" or the
\* message it raised with), how the copy of the result into the public
\* directory ended ("none", "ok", "failed"), the argument and the file
\* contents the remote call was given (arg, sentBase, sentUpload), the text it
\* returned (result), and when and under which name the result was published
\* (pubAt, pubName).
NoRequest ==
    [route |-> "none", body |-> TRUE, a |-> "missing", b |-> "missing",
     pc |-> "idle", status |-> 0, shape |-> "none", error |-> "",
     services |-> <<>>, filename |-> <<>>, items |-> <<>>, show |-> FALSE,
     answers |-> 0,
     calls |-> 0, saves |-> 0, downloads |-> 0, dlwrites |-> 0,
     remote |-> "none", copy |-> "none",
     arg |-> <<>>, sentBase |-> "none", sentUpload |-> "none", result |-> <<>>,
     pubAt |-> 0, pubName |-> <<>>]

\* The payloads of a route: (a, b) is (text, -) for /predict, (uploadedFile,
\* -) for /upload, (uploadedFile, url) for /uploadocassion, (prompt, -) for
\* /handleprompt and (color, selectedOccasion) for /handleocassion.
\* uploadedFile: "missing" is no such part, "empty" a part whose filename is ''.
Payloads(route) ==
    CASE route = "health" ->
           {[body |-> TRUE, a |-> "missing", b |-> "missing"]}
      [] route \in {"predict", "handleprompt"} ->
           {[body |-> FALSE, a |-> "missing", b |-> "missing"]}
           \cup {[body |-> TRUE, a |-> x, b |-> "missing"] : x \in FieldVals}
      [] route = "upload" ->
           {[body |-> TRUE, a |-> x, b |-> "missing"] : x \in FieldVals}
      [] route = "uploadocassion" ->
           {[body |-> TRUE, a |-> x, b |-> y] : x \in FieldVals, y \in FieldVals}
      [] route = "handleocassion" ->
           {[body |-> FALSE, a |-> "missing", b |-> "missing"]}
           \cup {[body |-> TRUE, a |-> x, b |-> y] : x \in FieldVals, y \in FieldVals}

InitServing ==
    /\ req = [w \in Workers |-> NoRequest]
    /\ lastHealth = <<>>
    /\ now = 0
    /\ staged = [upload |-> Untracked, downloaded |-> Untracked]
    /\ public = [n \in PublicNames |-> Untracked]

\* `return jsonify(...), status`: the handler ends with this response.
Respond(r, status, shape, error) ==
    [r EXCEPT !.pc = "done", !.status = status, !.shape = shape, !.error = error,
              !.answers = @ + 1]

\* `return jsonify({'error': ...}), status`
Fail(r, status, error) == Respond(r, status, "error", error)

\* The handler goes on to step pc.
Goto(r, pc) == [r EXCEPT !.pc = pc]

\* Python truthiness of a field: `not x` holds for None and for ''.
Falsy(x) == x \in {"missing", "empty"}

\* The files of a directory once worker w's previous request is forgotten.
Forget(dir, w) == [f \in DOMAIN dir |-> IF dir[f] = w THEN Untracked ELSE dir[f]]

\* Worker w takes the request (route, p); what its previous request left in
\* the directories is no longer tracked.
Arrive(w, route, p) ==
    /\ spc = "serving"
    /\ w \in pool
    /\ req[w].pc \in {"idle", "done"}
    /\ req' = [req EXCEPT ![w] =
                 [NoRequest EXCEPT !.route = route, !.body = p.body,
                                   !.a = p.a, !.b = p.b, !.pc = "handler"]]
    /\ staged' = Forget(staged, w)
    /\ public' = Forget(public, w)
    /\ UNCHANGED <<fixedVars, lastHealth, now>>

\* A request arrives at an idle worker (app.run, line 328: only once the
\* module's startup code has run).
Receive(w) ==
    \E route \in CapRoutes \cup {"health"} :
      \E p \in Payloads(route) : Arrive(w, route, p)

\* A well-formed request to one of the file routes arrives.
ReceiveFileRequest(w) ==
    \E route \in FileRoutes :
      Arrive(w, route, [body |-> TRUE, a |-> "val",
                        b |-> IF route = "uploadocassion" THEN "val" ELSE "missing"])

\* Time passes.
Tick ==
    /\ now < MaxNow
    /\ now' = now + 1
    /\ UNCHANGED <<fixedVars, req, lastHealth, staged, public>>

\* Variant of health_services: a capability is reported by its presence in
\* the configuration (`name in CLIENTS`) instead of in the registry.
health_services_configured ==
    [i \in 1..Len(ServiceOrder) |->
       <<ServiceOrder[i],
         IF ServiceOrder[i] \in DOMAIN CLIENTS THEN "available" ELSE "unavailable">>]

\* The 'services' entry of /health (lines 148-151), in CLIENTS.keys() order.
health_services ==
    [i \in 1..Len(ServiceOrder) |->
       <<ServiceOrder[i],
         IF clients[ServiceOrder[i]] # NoClient THEN "available" ELSE "unavailable">>]

\* GET /health (lines 135-152).
health_check(w) ==
    /\ req[w].route = "health"
    /\ req[w].pc = "handler"
    /\ req' = [req EXCEPT ![w] =
                 [Respond(@, 200, "health", "") EXCEPT !.services = health_services]]
    /\ lastHealth' = health_services
    /\ UNCHANGED <<fixedVars, fsVars>>

\* POST /predict up to the remote call (lines 157-163).
predict(w) ==
    /\ req[w].route = "predict"
    /\ req[w].pc = "handler"
    /\ LET r == req[w] IN
       req' = [req EXCEPT ![w] =
                 IF clients["chatbot"] = NoClient
                   THEN Fail(r, 503, UnavailableMsg["predict"])
                 ELSE IF ~r.body
                   THEN Fail(r, 500, BodyError)
                 ELSE IF r.a = "missing"
                   THEN Fail(r, 500, TextKeyError)
                 ELSE Goto(r, "invoke")]
    /\ UNCHANGED <<fixedVars, lastHealth, fsVars>>

\* Variant of upload_ocassion: the file part is checked before the registry.
upload_ocassion_file_first(w) ==
    /\ req[w].route = "uploadocassion"
    /\ req[w].pc = "handler"
    /\ LET r == req[w] IN
       req' = [req EXCEPT ![w] =
                 IF r.a = "missing"
                   THEN Fail(r, 400, "No file part")
                 ELSE IF clients["virtual_tryon"] = NoClient
                   THEN Fail(r, 503, UnavailableMsg["uploadocassion"])
                 ELSE IF r.b = "missing"
                   THEN Fail(r, 500, UrlKeyError)
                 ELSE Goto(r, "download")]
    /\ UNCHANGED <<fixedVars, lastHealth, fsVars>>

\* Variant of upload_ocassion: the filename is checked with the file part,
\* before the url is read and downloaded.
upload_ocassion_name_first(w) ==
    /\ req[w].route = "uploadocassion"
    /\ req[w].pc = "handler"
    /\ LET r == req[w] IN
       req' = [req EXCEPT ![w] =
                 IF clients["virtual_tryon"] = NoClient
                   THEN Fail(r, 503, UnavailableMsg["uploadocassion"])
                 ELSE IF r.a = "missing"
                   THEN Fail(r, 400, "No file part")
                 ELSE IF r.a = "empty"
                   THEN Fail(r, 400, "No selected file")
                 ELSE IF r.b = "missing"
                   THEN Fail(r, 500, UrlKeyError)
                 ELSE Goto(r, "download")]
    /\ UNCHANGED <<fixedVars, lastHealth, fsVars>>

\* POST /uploadocassion up to the download (lines 178-186).
upload_ocassion(w) ==
    /\ req[w].route = "uploadocassion"
    /\ req[w].pc = "handler"
    /\ LET r == req[w] IN
       req' = [req EXCEPT ![w] =
                 IF clients["virtual_tryon"] = NoClient
                   THEN Fail(r, 503, UnavailableMsg["uploadocassion"])
                 ELSE IF r.a = "missing"
                   THEN Fail(r, 400, "No file part")
                 ELSE IF r.b = "missing"
                   THEN Fail(r, 500, UrlKeyError)
                 ELSE Goto(r, "download")]
    /\ UNCHANGED <<fixedVars, lastHealth, fsVars>>

\* str(e) of what requests.get or the write raise inside download_image.
DownloadError == "download: transport error"

\* Variant of AfterDownload: download_image lets its exception out, and the
\* route's except clause answers with the exception's message.
AfterDownloadRaises(r, ok) ==
    IF ~ok THEN Fail(r, 500, DownloadError)
    ELSE IF r.a = "empty" THEN Fail(r, 400, "No selected file")
    ELSE Goto(r, "save")

\* Lines 188-193: download_image has returned the path (ok) or None.
AfterDownload(r, ok) ==
    IF ~ok THEN Fail(r, 500, "Failed to download image")
    ELSE IF r.a = "empty" THEN Fail(r, 400, "No selected file")
    ELSE Goto(r, "save")

\* download_image (lines 100-119) as /uploadocassion calls it (line 188).
\* requests.get of an empty url raises; any other url answers 200 and is
\* written to downloaded_image.png, or fails (another status, an exception).
download_image(w) ==
    /\ req[w].route = "uploadocassion"
    /\ req[w].pc = "download"
    /\ LET r == [req[w] EXCEPT !.downloads = @ + 1] IN
       \E ok \in (IF r.b = "val" THEN BOOLEAN ELSE {FALSE}) :
         /\ req' = [req EXCEPT ![w] =
                      AfterDownload(IF ok THEN [r EXCEPT !.dlwrites = @ + 1] ELSE r, ok)]
         /\ staged' = IF ok THEN [staged EXCEPT !.downloaded = w] ELSE staged
    /\ UNCHANGED <<fixedVars, lastHealth, now, public>>

\* POST /upload up to the save (lines 222-231).
upload_files(w) ==
    /\ req[w].route = "upload"
    /\ req[w].pc = "handler"
    /\ LET r == req[w] IN
       req' = [req EXCEPT ![w] =
                 IF clients["virtual_tryon"] = NoClient
                   THEN Fail(r, 503, UnavailableMsg["upload"])
                 ELSE IF r.a = "missing"
                   THEN Fail(r, 400, "No file part")
                 ELSE IF r.a = "empty"
                   THEN Fail(r, 400, "No selected file")
                 ELSE Goto(r, "save")]
    /\ UNCHANGED <<fixedVars, lastHealth, fsVars>>

\* Variant of AfterSave: a save that raises is not caught, and the request
\* gets no response from the handler.
AfterSaveUncaught(r, ok) ==
    IF ok THEN Goto(r, "invoke") ELSE Goto(r, "crashed")

\* Variant of AfterSave: the outcome of the save is not looked at.
AfterSaveIgnored(r, ok) == Goto(r, "invoke")

\* The save returned (ok), or raised into the route's except clause (lines
\* 215-217, 253-255).
AfterSave(r, ok) ==
    IF ok THEN Goto(r, "invoke") ELSE Fail(r, 500, SaveError)

\* uploaded_file.save(upload_path) (lines 195-196, 233-234): uploads/upload.png
\* is written, or the save raises.
save_upload(w) ==
    /\ req[w].route \in {"upload", "uploadocassion"}
    /\ req[w].pc = "save"
    /\ LET r == req[w] IN
       \E ok \in BOOLEAN :
         /\ req' = [req EXCEPT ![w] =
                      AfterSave(IF ok THEN [r EXCEPT !.saves = @ + 1] ELSE r, ok)]
         /\ staged' = IF ok THEN [staged EXCEPT !.upload = w] ELSE staged
    /\ UNCHANGED <<fixedVars, lastHealth, now, public>>

\* POST /handleprompt up to the remote call (lines 260-269).
handle_prompt(w) ==
    /\ req[w].route = "handleprompt"
    /\ req[w].pc = "handler"
    /\ LET r == req[w] IN
       req' = [req EXCEPT ![w] =
                 IF clients["text_to_dress"] = NoClient
                   THEN Fail(r, 503, UnavailableMsg["handleprompt"])
                 ELSE IF ~r.body
                   THEN Fail(r, 500, BodyError)
                 ELSE IF Falsy(r.a)
                   THEN Fail(r, 400, "No prompt provided")
                 ELSE Goto(r, "invoke")]
    /\ UNCHANGED <<fixedVars, lastHealth, fsVars>>

\* POST /handleocassion up to the remote call (lines 294-305).
handleocassion(w) ==
    /\ req[w].route = "handleocassion"
    /\ req[w].pc = "handler"
    /\ LET r == req[w] IN
       req' = [req EXCEPT ![w] =
                 IF clients["occasion"] = NoClient
                   THEN Fail(r, 503, UnavailableMsg["handleocassion"])
                 ELSE IF ~r.body
                   THEN Fail(r, 500, BodyError)
                 ELSE IF Falsy(r.a) \/ Falsy(r.b)
                   THEN Fail(r, 400, "Color and occasion are required")
                 ELSE Goto(r, "invoke")]
    /\ UNCHANGED <<fixedVars, lastHealth, fsVars>>

\* The text argument of the remote call of /handleocassion (line 308); the
\* text arguments of /predict and /handleprompt are not modelled.
CallArgument(r) ==
    IF r.route = "handleocassion" THEN Phrase(ColorText, OccasionText) ELSE <<>>

\* The first file of a try-on call: file(downloaded_path) (line 199) or the
\* fixed base image (line 237), read when the call is made.
BaseRead(r) ==
    IF r.route = "uploadocassion" THEN staged.downloaded
    ELSE IF r.route = "upload" THEN BaseImage
    ELSE "none"

\* Variant of UploadRead: each request stages its upload under a name of its
\* own, so the call reads what this request wrote.
UploadReadOwn(r, w) ==
    IF r.route \in {"upload", "uploadocassion"} THEN w ELSE "none"

\* The second file of a try-on call: file(str(upload_path)) (lines 200, 238),
\* the content uploads/upload.png holds when the call is made.
UploadRead(r, w) ==
    IF r.route \in {"upload", "uploadocassion"} THEN staged.upload ELSE "none"

\* Variant of invoke: the remote calls are serialised by a lock, so a call is
\* entered only when no other handler is inside one.
invoke_exclusive(w) ==
    /\ req[w].route \in CapRoutes
    /\ req[w].pc = "invoke"
    /\ clients[CapOf[req[w].route]] # NoClient
    /\ \A v \in Workers \ {w} : req[v].pc # "wait"
    /\ req' = [req EXCEPT ![w] =
                 Goto([@ EXCEPT !.calls = @ + 1,
                                !.arg = CallArgument(req[w]),
                                !.sentBase = BaseRead(req[w]),
                                !.sentUpload = UploadRead(req[w], w)],
                      "wait")]
    /\ UNCHANGED <<fixedVars, lastHealth, fsVars>>

\* clients[...].predict(...) is entered (lines 165, 198, 236, 271, 307): the
\* handler blocks until it returns or raises.
invoke(w) ==
    /\ req[w].route \in CapRoutes
    /\ req[w].pc = "invoke"
    /\ clients[CapOf[req[w].route]] # NoClient
    /\ req' = [req EXCEPT ![w] =
                 Goto([@ EXCEPT !.calls = @ + 1,
                                !.arg = CallArgument(req[w]),
                                !.sentBase = BaseRead(req[w]),
                                !.sentUpload = UploadRead(req[w], w)],
                      "wait")]
    /\ UNCHANGED <<fixedVars, lastHealth, fsVars>>

\* Variant of OnRemoteError: a failed remote call is tried once more.
OnRemoteErrorRetry(r, msg) ==
    IF r.calls < 2 THEN Goto(r, "invoke") ELSE Fail(r, 500, msg)

\* The remote call raised with message msg: the handler's except clause
\* (lines 171-173, 215-217, 253-255, 287-289, 318-320).
OnRemoteError(r, msg) == Fail(r, 500, msg)

\* The remote call returned: /predict and /handleocassion answer at once
\* (lines 170, 312-317), the file routes go on to publish the result.
OnRemoteResult(r) ==
    IF r.route = "predict" THEN Respond(r, 200, "result", "")
    ELSE IF r.route = "handleocassion"
      THEN Respond([r EXCEPT !.items = split(r.result), !.show = TRUE],
                   200, "newItems", "")
    ELSE Goto(r, "publish")

\* What the remote call of request r can return.
RemoteResults(r) == IF r.route = "handleocassion" THEN ResultTexts ELSE {<<>>}

\* Variant of remote_returns: a client whose call raised is dropped from the
\* registry.
remote_returns_evict(w) ==
    /\ req[w].route \in CapRoutes
    /\ req[w].pc = "wait"
    /\ \/ /\ \E text \in RemoteResults(req[w]) :
               req' = [req EXCEPT ![w] =
                         OnRemoteResult([@ EXCEPT !.remote = "ok", !.result = text])]
          /\ clients' = clients
       \/ /\ \E msg \in RemoteErrors :
               req' = [req EXCEPT ![w] = OnRemoteError([@ EXCEPT !.remote = msg], msg)]
          /\ clients' = [clients EXCEPT ![CapOf[req[w].route]] = NoClient]
    /\ UNCHANGED <<urls, spc, si, ui, attempt, tries, waits, built, pool, lastHealth, fsVars>>

\* The remote call ends.
remote_returns(w) ==
    /\ req[w].route \in CapRoutes
    /\ req[w].pc = "wait"
    /\ \/ \E text \in RemoteResults(req[w]) :
            req' = [req EXCEPT ![w] =
                      OnRemoteResult([@ EXCEPT !.remote = "ok", !.result = text])]
       \/ \E msg \in RemoteErrors :
            req' = [req EXCEPT ![w] = OnRemoteError([@ EXCEPT !.remote = msg], msg)]
    /\ UNCHANGED <<fixedVars, lastHealth, fsVars>>

\* Variant of AfterCopy: when the copy fails the remote call is made again to
\* get a fresh result.
AfterCopyRetry(r, copied) ==
    IF copied
      THEN Respond([r EXCEPT !.filename = r.pubName], 200, "message_filename", "")
      ELSE IF r.calls < 2 THEN Goto(r, "invoke") ELSE Fail(r, 500, CopyFailedMsg[r.route])

\* What a file route answers once safe_copy has returned copied (lines
\* 207-213, 245-251, 279-285).
AfterCopy(r, copied) ==
    IF copied
      THEN Respond([r EXCEPT !.filename = r.pubName], 200, "message_filename", "")
      ELSE Fail(r, 500, CopyFailedMsg[r.route])

\* generate_unique_filename and safe_copy (lines 85-98) as the file routes
\* call them (lines 204-207, 242-245, 276-279): the copy succeeds or fails.
publish(w) ==
    /\ req[w].route \in FileRoutes
    /\ req[w].pc = "publish"
    /\ \E copied \in BOOLEAN :
         LET name == generate_unique_filename(LogicalName[req[w].route], now)
             r == [req[w] EXCEPT !.copy = IF copied THEN "ok" ELSE "failed",
                                 !.pubAt = now, !.pubName = name]
         IN
         /\ req' = [req EXCEPT ![w] = AfterCopy(r, copied)]
         /\ public' = IF copied THEN [public EXCEPT ![name] = w] ELSE public
    /\ UNCHANGED <<fixedVars, lastHealth, now, staged>>

(***************************************************************************)
(* Properties of the routes                                                *)
(***************************************************************************)

\* r is a request to a route whose capability has a bound client.
Available(r) == r.route \in CapRoutes /\ clients[CapOf[r.route]] # NoClient

\* r is a request to a route whose capability has no bound client.
Unavailable(r) == r.route \in CapRoutes /\ clients[CapOf[r.route]] = NoClient

\* The handler of r has run its checks.
Started(r) == r.pc \notin {"idle", "handler"}

\* Nothing was staged, downloaded, called or published for r.
NoSideEffects(r) ==
    /\ r.calls = 0
    /\ r.saves = 0
    /\ r.downloads = 0
    /\ r.dlwrites = 0
    /\ r.remote = "none"
    /\ r.copy = "none"

\* C5: on every route, a request to a capability without a bound client is
\* answered 503 whatever its payload, with no staging write, no download and
\* no remote call: the availability check precedes field validation.
C5_UnavailableIs503 ==
    \A w \in Workers :
      LET r == req[w] IN
      (Unavailable(r) /\ Started(r)) =>
        /\ r.pc = "done"
        /\ r.status = 503
        /\ r.shape = "error"
        /\ r.error = UnavailableMsg[r.route]
        /\ NoSideEffects(r)

\* /uploadocassion without a file part and without url, virtual_tryon being
\* unbound, has been answered 503.
C5_Witness ==
    \E w \in Workers :
      LET r == req[w] IN
      /\ r.route = "uploadocassion"
      /\ r.a = "missing"
      /\ r.b = "missing"
      /\ Unavailable(r)
      /\ r.pc = "done"
      /\ r.status = 503

\* r (with a well-formed body) lacks a field its route requires.
MissingRequired(r) ==
    /\ r.body
    /\ CASE r.route = "predict" -> r.a = "missing"
         [] r.route = "upload" -> Falsy(r.a)
         [] r.route = "uploadocassion" -> Falsy(r.a) \/ r.b = "missing"
         [] r.route = "handleprompt" -> Falsy(r.a)
         [] r.route = "handleocassion" -> Falsy(r.a) \/ Falsy(r.b)
         [] OTHER -> FALSE

\* C6: on every route whose capability is available, a request missing a
\* required field is answered 400, and nothing is staged, downloaded or
\* called before that answer.
C6_MissingFieldIs400 ==
    \A w \in Workers :
      LET r == req[w] IN
      (Available(r) /\ MissingRequired(r) /\ Started(r)) =>
        /\ NoSideEffects(r)
        /\ r.pc = "done" => r.status = 400

\* C7: when the remote call raises, the request is answered 500 with the
\* exception's message, the call is not made again and no result is
\* published.
C7_RemoteErrorIs500 ==
    \A w \in Workers :
      LET r == req[w] IN
      r.remote \in RemoteErrors =>
        /\ r.pc = "done"
        /\ r.status = 500
        /\ r.shape = "error"
        /\ r.error = r.remote
        /\ r.calls = 1
        /\ r.copy = "none"

\* The remote call of a file route raised after the upload was staged.
C7_Witness ==
    \E w \in Workers :
      LET r == req[w] IN
      /\ r.route = "uploadocassion"
      /\ r.remote = "remote: connection reset"
      /\ r.saves = 1
      /\ r.status = 500

\* r carries every field its route requires.
Valid(r) ==
    CASE r.route = "predict" -> r.body /\ r.a # "missing"
      [] r.route = "upload" -> r.a = "val"
      [] r.route = "uploadocassion" -> r.a = "val" /\ r.b = "val"
      [] r.route = "handleprompt" -> r.body /\ r.a = "val"
      [] r.route = "handleocassion" -> r.body /\ r.a = "val" /\ r.b = "val"
      [] OTHER -> FALSE

\* The inputs the route stages for its remote call were written.
StagingOk(r) ==
    CASE r.route = "upload" -> r.saves = 1
      [] r.route = "uploadocassion" -> r.dlwrites = 1 /\ r.saves = 1
      [] OTHER -> TRUE

\* The 200 body of each route (lines 170, 208-211, 246-249, 280-283, 314-317).
SuccessShape ==
    [predict        |-> "result",
     upload         |-> "message_filename",
     uploadocassion |-> "message_filename",
     handleprompt   |-> "message_filename",
     handleocassion |-> "newItems"]

\* C8: a request enters its capability's remote call at most once on every
\* path; a valid request to an available capability whose staging succeeds
\* enters it exactly once, and when the call returns normally (and, on a file
\* route, the copy succeeds) the answer is the route's 200 shape.
C8_SingleCall ==
    \A w \in Workers :
      LET r == req[w] IN
      /\ r.calls <= 1
      /\ r.remote # "none" => r.calls = 1
      /\ (r.pc = "done" /\ Available(r) /\ Valid(r) /\ StagingOk(r)) => r.calls = 1
      /\ ( /\ r.pc = "done"
           /\ r.route \in CapRoutes
           /\ r.remote = "ok"
           /\ r.route \in FileRoutes => r.copy = "ok" ) =>
           /\ r.status = 200
           /\ r.shape = SuccessShape[r.route]
           /\ r.error = ""

\* A valid /uploadocassion request was staged, entered the remote call once
\* and, the call and the copy having succeeded, was answered 200.
C8_Witness ==
    \E w \in Workers :
      LET r == req[w] IN
      /\ r.route = "uploadocassion"
      /\ Valid(r)
      /\ StagingOk(r)
      /\ r.pc = "done"
      /\ r.calls = 1
      /\ r.remote = "ok"
      /\ r.copy = "ok"
      /\ r.status = 200
      /\ r.shape = "message_filename"

\* A step changes the registry only by binding a capability that had no
\* client, and only before serving starts.
C9_RegistryStep ==
    /\ \A s \in Services : clients[s] # NoClient => clients'[s] = clients[s]
    /\ spc = "serving" => clients' = clients
    /\ clients' # clients => spc = "try"

\* While serving, the registry is what startup resolved, and the routes
\* answer 503 exactly for the capabilities startup left unbound.
C9_Lifetime ==
    spc = "serving" =>
      /\ \A s \in Services : clients[s] # NoClient <=> UrlsOf(s) \cap built # {}
      /\ \A w \in Workers :
           LET r == req[w] IN
           (r.route \in CapRoutes /\ r.pc = "done") =>
             (r.status = 503 <=> UrlsOf(CapOf[r.route]) \cap built = {})

\* C9: the registry changes only during the one-time startup pass, where each
\* capability is bound at most once and a bound handle is never replaced;
\* afterwards no request adds, removes or replaces an entry, so a capability
\* unbound at the end of startup answers 503 for the process lifetime and a
\* bound one keeps its client.
C9_RegistryFrozen == [][C9_RegistryStep]_vars /\ [](C9_Lifetime)

\* A remote call of a bound capability has raised and the capability is still
\* bound, while another capability stays unbound.
C9_Witness ==
    /\ spc = "serving"
    /\ lastHealth # <<>>
    /\ clients["text_to_dress"] = NoClient
    /\ \E w \in Workers :
         LET r == req[w] IN
         /\ r.route = "predict"
         /\ r.remote \in RemoteErrors
         /\ r.pc = "done"
         /\ clients["chatbot"] = CLIENTS["chatbot"][2]

\* The status a /health answer sv gives for capability c.
HealthOf(sv, c) == sv[CHOOSE i \in DOMAIN sv : sv[i][1] = c][2]

\* sv lists every configured capability once, "available" exactly for the
\* capabilities with a bound client.
HealthExact(sv) ==
    /\ \A c \in Services : Cardinality({i \in DOMAIN sv : sv[i][1] = c}) = 1
    /\ \A i \in DOMAIN sv :
         /\ sv[i][1] \in Services
         /\ sv[i][2] \in {"available", "unavailable"}
         /\ sv[i][2] = "available" <=> clients[sv[i][1]] # NoClient
         /\ sv[i][2] = "available" <=> UrlsOf(sv[i][1]) \cap built # {}

\* C10: after startup /health lists every configured capability exactly once,
\* 'available' if and only if resolution bound a client for it, and its
\* answer agrees with the routes: a route answers 503 for unavailability
\* exactly when /health says its capability is unavailable.
C10_HealthAgrees ==
    /\ \A w \in Workers :
         (req[w].route = "health" /\ req[w].pc = "done") =>
           /\ req[w].status = 200
           /\ HealthExact(req[w].services)
    /\ lastHealth # <<>> =>
         /\ HealthExact(lastHealth)
         /\ \A w \in Workers :
              LET r == req[w] IN
              (r.route \in CapRoutes /\ r.pc = "done") =>
                ( (r.status = 503 /\ r.error = UnavailableMsg[r.route])
                  <=> HealthOf(lastHealth, CapOf[r.route]) = "unavailable" )

\* /health has reported occasion unavailable and chatbot available, and
\* /handleocassion has then been answered 503.
C10_Witness ==
    /\ lastHealth # <<>>
    /\ HealthOf(lastHealth, "occasion") = "unavailable"
    /\ HealthOf(lastHealth, "chatbot") = "available"
    /\ \E w \in Workers :
         /\ req[w].route = "handleocassion"
         /\ req[w].pc = "done"
         /\ req[w].status = 503

(***************************************************************************)
(* Properties of the staged and the published files                        *)
(***************************************************************************)

TryOnRoutes == {"upload", "uploadocassion"}

\* Request r has copied its result into the public directory.
Published(r) == r.route \in FileRoutes /\ r.copy = "ok"

\* C11: two publish operations with the same logical name performed at
\* different times generate different filenames, so that no publish
\* overwrites an earlier result.
C11_DistinctNames ==
    \A v, w \in Workers :
      ( /\ v # w
        /\ Published(req[v])
        /\ Published(req[w])
        /\ LogicalName[req[v].route] = LogicalName[req[w].route]
        /\ req[v].pubAt # req[w].pubAt )
      => req[v].pubName # req[w].pubName

\* Worker w's step enters the remote call.
Invokes(w) == req[w].pc = "invoke" /\ req'[w].pc = "wait"

\* C12: the staging files are shared and unguarded: a try-on call is given
\* whatever uploads/upload.png (and, for /uploadocassion,
\* uploads/downloaded_image.png) holds at the moment the call is made,
\* whichever request wrote it.
C12_CallReadsSharedFile ==
    [][\A w \in Workers :
         (Invokes(w) /\ req[w].route \in TryOnRoutes)
         => /\ req'[w].sentUpload = staged.upload
            /\ req[w].route = "uploadocassion" => req'[w].sentBase = staged.downloaded]_vars

\* Two concurrent /uploadocassion requests have each staged both of their
\* inputs, and the remote call of one was given the two files of the other.
C12_Witness ==
    \E v, w \in Workers :
      /\ v # w
      /\ req[v].route = "uploadocassion"
      /\ req[w].route = "uploadocassion"
      /\ req[v].dlwrites = 1 /\ req[v].saves = 1
      /\ req[w].dlwrites = 1 /\ req[w].saves = 1
      /\ req[w].calls = 1
      /\ req[w].sentUpload = v
      /\ req[w].sentBase = v

(***************************************************************************)
(* Properties of error handling, ordering and blocking                     *)
(***************************************************************************)

\* One step of worker w's handler other than the return of its remote call.
Step(w) ==
    \/ health_check(w)
    \/ predict(w)
    \/ upload_ocassion(w)
    \/ download_image(w)
    \/ upload_files(w)
    \/ save_upload(w)
    \/ handle_prompt(w)
    \/ handleocassion(w)
    \/ invoke(w)
    \/ publish(w)

Positions == {"idle", "handler", "download", "save", "invoke", "wait", "publish", "done"}

\* C13: whatever fails, the handling of a request ends with exactly one
\* response, whose status is 200, 400, 500 or 503; until then no response is
\* sent and the handler can go on (or waits for its remote call), and
\* afterwards the worker takes further requests.
C13_NoErrorEscapes ==
    \A w \in Workers :
      LET r == req[w] IN
      /\ r.pc \in Positions
      /\ r.pc = "done" =>
            /\ r.answers = 1
            /\ r.status \in {200, 400, 500, 503}
            /\ r.shape # "none"
            /\ r.status # 200 => r.shape = "error" /\ r.error # ""
            /\ w \in pool => ENABLED Receive(w)
      /\ r.pc # "done" => r.answers = 0 /\ r.status = 0
      /\ r.pc \in {"handler", "download", "save", "invoke", "publish"} => ENABLED Step(w)
      /\ r.pc = "wait" => ENABLED remote_returns(w)

\* A try-on request whose upload could not be saved was answered 500 with
\* the exception's message.
C13_Witness ==
    \E w \in Workers :
      /\ req[w].route \in TryOnRoutes
      /\ req[w].pc = "done"
      /\ req[w].status = 500
      /\ req[w].error = SaveError
      /\ req[w].answers = 1
      /\ req[w].saves = 0

\* The number of commas of text s.
Commas(s) == Cardinality({i \in 1..Len(s) : s[i] = Comma})

\* The texts of q joined by commas.
RECURSIVE Join(_)
Join(q) ==
    IF Len(q) = 0 THEN <<>>
    ELSE IF Len(q) = 1 THEN q[1]
    ELSE q[1] \o <<Comma>> \o Join(Tail(q))

\* C14: a successful /handleocassion answers newItems = the result text cut
\* at every comma, in order and with the empty segments kept (n commas give
\* n + 1 items, which joined by commas give the result back), with
\* showRecommendations true; the remote call was given
\* "<color> shirt for <selectedOccasion>".
C14_SplitOnEveryComma ==
    \A w \in Workers :
      LET r == req[w] IN
      (r.route = "handleocassion" /\ r.pc = "done" /\ r.status = 200)
      => /\ r.shape = "newItems"
         /\ r.show
         /\ Len(r.items) = Commas(r.result) + 1
         /\ \A i \in 1..Len(r.items) : Commas(r.items[i]) = 0
         /\ Join(r.items) = r.result
         /\ (r.result # <<>> /\ Head(r.result) = Comma) => Head(r.items) = <<>>
         /\ (r.result # <<>> /\ r.result[Len(r.result)] = Comma)
              => r.items[Len(r.items)] = <<>>
         /\ r.calls = 1
         /\ r.arg = <<"r", "e", "d", " ", "s", "h", "i", "r", "t", " ",
                      "f", "o", "r", " ", "w", "e", "d", "d", "i", "n", "g">>

\* The remote result ",s," was answered as the three items "", "s", "".
C14_Witness ==
    \E w \in Workers :
      /\ req[w].route = "handleocassion"
      /\ req[w].pc = "done"
      /\ req[w].status = 200
      /\ req[w].result = <<Comma, "s", Comma>>
      /\ req[w].items = << <<>>, <<"s">>, <<>> >>

\* C15: a try-on call is made only once this request has written every file
\* it passes by path (upload.png; for /uploadocassion downloaded_image.png
\* too), and a result is published only after the one remote call of the
\* request has returned.
C15_StagedBeforeCall ==
    \A w \in Workers :
      LET r == req[w] IN
      /\ (r.route \in TryOnRoutes /\ r.pc = "invoke") => StagingOk(r) /\ r.calls = 0
      /\ (r.route \in TryOnRoutes /\ r.calls > 0) => StagingOk(r)
      /\ r.route = "uploadocassion" /\ r.saves > 0 => r.dlwrites = 1
      /\ r.pc = "publish" => r.remote = "ok" /\ r.calls = 1 /\ r.copy = "none"
      /\ r.copy # "none" => r.remote = "ok" /\ r.calls = 1
      /\ r.pubName # <<>> => r.remote = "ok"

\* A /uploadocassion request has published its result, while the other
\* worker is inside the remote call of a /upload request.
C15_Witness ==
    \E v, w \in Workers :
      /\ v # w
      /\ req[w].route = "uploadocassion"
      /\ req[w].pc = "done"
      /\ req[w].status = 200
      /\ req[w].dlwrites = 1 /\ req[w].saves = 1 /\ req[w].calls = 1
      /\ req[w].copy = "ok"
      /\ req[v].route = "upload"
      /\ req[v].pc = "wait"
      /\ req[v].saves = 1

\* The download of r was attempted and wrote nothing.
DownloadFailed(r) == r.downloads = 1 /\ r.dlwrites = 0

\* C16: a failed download and a failed copy come back as values: the route
\* answers 500 with its fixed message (not the exception's), after a failed
\* download nothing is staged or called, and after a failed copy the one
\* remote call is not repeated.
C16_StagingFailureIsValue ==
    \A w \in Workers :
      LET r == req[w] IN
      /\ DownloadFailed(r) =>
            /\ r.pc = "done"
            /\ r.status = 500
            /\ r.shape = "error"
            /\ r.error = "Failed to download image"
            /\ r.calls = 0 /\ r.saves = 0 /\ r.remote = "none" /\ r.copy = "none"
      /\ r.copy = "failed" =>
            /\ r.pc = "done"
            /\ r.status = 500
            /\ r.shape = "error"
            /\ r.error = CopyFailedMsg[r.route]
            /\ r.calls = 1
            /\ r.filename = <<>>

\* One request was answered 500 after its download failed, another after
\* the copy of its result failed.
C16_Witness ==
    \E v, w \in Workers :
      /\ v # w
      /\ req[v].route = "uploadocassion"
      /\ DownloadFailed(req[v])
      /\ req[v].status = 500
      /\ req[w].copy = "failed"
      /\ req[w].status = 500
      /\ req[w].calls = 1

\* Worker w is at the start of a handler.
Handling(w) == req[w].pc = "handler"

Responded(w) == req[w].pc = "done"

\* C17: a handler inside its remote call leaves it only when the call
\* returns or raises (no timeout answers for it); if the call of the first
\* worker does end, its request is answered; and whether or not it ends,
\* every request of the second worker is answered and the registry stays
\* as it is.
C17_BlocksOnRemoteCall ==
    /\ [][\A w \in Workers :
            req[w].pc = "wait" => (req'[w] = req[w] \/ req'[w].remote # "none")]_vars
    /\ [][clients' = clients]_vars
    /\ WF_vars(remote_returns("w1")) => (Handling("w1") ~> Responded("w1"))
    /\ Handling("w2") ~> Responded("w2")

\* The first worker is inside the remote call of /predict and the second has
\* answered a request with 200.
C17_Witness ==
    /\ req["w1"].route = "predict"
    /\ req["w1"].pc = "wait"
    /\ req["w1"].answers = 0
    /\ req["w2"].pc = "done"
    /\ req["w2"].status = 200
    /\ req["w2"].calls = 1

\* C18: /uploadocassion answers with the first check that fails, in the
\* order: capability bound (503), file part present (400), url present
\* (500), download succeeds (500), filename not empty (400); the download
\* is thus attempted before the filename is looked at.
C18_CheckOrder ==
    \A w \in Workers :
      LET r == req[w] IN
      (r.route = "uploadocassion" /\ r.pc = "done") =>
        IF Unavailable(r)
          THEN r.status = 503 /\ r.downloads = 0
        ELSE IF r.a = "missing"
          THEN r.status = 400 /\ r.error = "No file part" /\ r.downloads = 0
        ELSE IF r.b = "missing"
          THEN r.status = 500 /\ r.error = UrlKeyError /\ r.downloads = 0
        ELSE IF DownloadFailed(r)
          THEN r.status = 500 /\ r.error = "Failed to download image" /\ r.saves = 0
        ELSE IF r.a = "empty"
          THEN /\ r.status = 400
               /\ r.error = "No selected file"
               /\ r.downloads = 1
               /\ r.dlwrites = 1
               /\ r.saves = 0
               /\ r.calls = 0
        ELSE r.downloads = 1 /\ r.dlwrites = 1

\* A request with an empty filename whose download failed was answered 500.
C18_Witness ==
    \E w \in Workers :
      /\ req[w].route = "uploadocassion"
      /\ req[w].pc = "done"
      /\ req[w].a = "empty"
      /\ req[w].b = "val"
      /\ DownloadFailed(req[w])
      /\ req[w].status = 500

Init ==
    /\ urls = CLIENTS
    /\ pool = {"w1"}
    /\ InitStartup
    /\ InitServing

\* The resolver over every truncation of the configured candidate lists
\* (an empty list included).
InitResolve ==
    /\ urls \in [Services -> UNION {Prefixes(CLIENTS[s]) : s \in Services}]
    /\ \A s \in Services : urls[s] \in Prefixes(CLIENTS[s])
    /\ pool = {}
    /\ InitStartup
    /\ InitServing

Next ==
    \/ NextService
    \/ TryConnect
    \/ Backoff
    \/ \E w \in Workers :
         \/ Receive(w)
         \/ health_check(w)
         \/ predict(w)
         \/ upload_ocassion(w)
         \/ download_image(w)
         \/ upload_files(w)
         \/ save_upload(w)
         \/ handle_prompt(w)
         \/ handleocassion(w)
         \/ invoke(w)
         \/ remote_returns(w)
         \/ publish(w)

NextResolve == NextService \/ TryConnect \/ Backoff

\* The state the startup code leaves when the first candidate of every
\* capability connects at its first attempt; the runtime then serves with
\* every worker.
InitServe ==
    /\ urls = CLIENTS
    /\ clients = [s \in Services |-> CLIENTS[s][1]]
    /\ spc = "serving"
    /\ si = Len(ServiceOrder) + 1
    /\ ui = 1
    /\ attempt = 0
    /\ built = {CLIENTS[s][1] : s \in Services}
    /\ tries = [u \in AllUrls |-> IF u \in built THEN 1 ELSE 0]
    /\ waits = [u \in AllUrls |-> 0]
    /\ pool = Workers
    /\ InitServing

\* Well-formed requests to the file routes, served concurrently while time
\* passes.
NextServe ==
    \/ Tick
    \/ \E w \in Workers :
         \/ ReceiveFileRequest(w)
         \/ upload_ocassion(w)
         \/ download_image(w)
         \/ upload_files(w)
         \/ save_upload(w)
         \/ handle_prompt(w)
         \/ invoke(w)
         \/ remote_returns(w)
         \/ publish(w)

\* A request that passes its route's checks arrives.
ReceiveValid(w) ==
    \E route \in CapRoutes :
      \E p \in Payloads(route) :
        /\ Valid([route |-> route, body |-> p.body, a |-> p.a, b |-> p.b])
        /\ Arrive(w, route, p)

\* Requests that pass the checks, on every route with a remote call, served
\* concurrently.
NextLive ==
    \E w \in Workers :
      \/ ReceiveValid(w)
      \/ predict(w)
      \/ upload_ocassion(w)
      \/ download_image(w)
      \/ upload_files(w)
      \/ save_upload(w)
      \/ handle_prompt(w)
      \/ handleocassion(w)
      \/ invoke(w)
      \/ remote_returns(w)
      \/ publish(w)

Spec == Init /\ [][Next]_vars

SpecResolve == InitResolve /\ [][NextResolve]_vars

SpecServe == InitServe /\ [][NextServe]_vars

\* Every handler step that can be taken is taken; the remote call of the
\* second worker always ends, that of the first may hang for ever.
SpecLive ==
    /\ InitServe
    /\ [][NextLive]_vars
    /\ \A w \in Workers : WF_vars(Step(w))
    /\ WF_vars(remote_returns("w2"))

====
